---- MODULE Spec2Model ----
(***************************************************************************)
(* SkipRenderOnClient and useIsFirstRender (src/unnamed/part_001).         *)
(*                                                                         *)
(* Component instances live in slots.  An instance is rendered either in   *)
(* a server context (no window) or in a client context.  The markup the    *)
(* server emitted for an instance becomes the document content the client  *)
(* instance with the same useId() identity hydrates against.  A render is  *)
(* one synchronous call of the component function; the framework commits   *)
(* the returned element afterwards.  The children of an instance may hold *)
(* another instance, whose container then lies inside its container.       *)
(***************************************************************************)
EXTENDS Integers, FiniteSets, Sequences, TLC

MaxIds == 3
MaxRenders == 2

\* two component instances side by side, as in the usage example of the source
Slots == {1, 2}
Ids == 1..MaxIds
Null == 0

\* content of the container <div id={id}> in the document / emitted markup
Content == {"absent", "empty", "children"}

VARIABLES env, id, parent, isFirst, renders, commits, pending, output, last,
          predCalls, clears, clearCommits, dom, nextId

vars == <<env, id, parent, isFirst, renders, commits, pending, output, last,
          predCalls, clears, clearCommits, dom, nextId>>

----
\* ---------------- the component function, as operators ----------------

\* typeof window !== 'undefined'
isClientOf(e) == e = "client"

\* useIsFirstRender: reads the ref, flips it on the first call
useIsFirstRender_neverFlips(cur) == [ret |-> cur, current |-> cur]
useIsFirstRender_alwaysFirst(cur) == [ret |-> TRUE, current |-> FALSE]
useIsFirstRender(cur) ==
  IF cur THEN [ret |-> TRUE, current |-> FALSE]
         ELSE [ret |-> FALSE, current |-> cur]

\* document.getElementById(id): the element, or null
getElementById_firstDiv(d, k) ==
  IF \E j \in DOMAIN d : d[j] # "absent"
    THEN CHOOSE j \in DOMAIN d : d[j] # "absent" /\ \A m \in DOMAIN d : d[m] # "absent" => j <= m
    ELSE Null
getElementById(d, k) ==
  IF k \in DOMAIN d /\ d[k] # "absent" THEN k ELSE Null

\* number of predicate calls made by the condition of the if statement
\* (&& short-circuits: the predicate is the last conjunct)
guardCalls_always(isClient, isFirstRender) == 1
guardCalls(isClient, isFirstRender) ==
  IF isClient /\ isFirstRender THEN 1 ELSE 0

\* isClient && isFirstRender && shouldRenderOnClient() === false
shouldClear_noFirstCheck(isClient, isFirstRender, p1) == isClient /\ (p1 = FALSE)
shouldClear_never(isClient, isFirstRender, p1) == FALSE
shouldClear(isClient, isFirstRender, p1) ==
  isClient /\ isFirstRender /\ (p1 = FALSE)

\* the document after the content of container el is replaced by v (empty
\* or removed): every container among its descendants leaves the document
withoutDescendants(d, el, inside, v) ==
  [k \in DOMAIN d |-> IF k = el THEN v
                      ELSE IF k \in inside THEN "absent" ELSE d[k]]

\* if (el !== null) { el.innerHTML = ''; }
\* ins[el] are the containers of other instances that lie inside el
clearStep_noNullCheck(d, ins, el) ==
  IF el # Null
    THEN [document |-> withoutDescendants(d, el, ins[el], "empty"),
          cleared |-> TRUE, threw |-> FALSE]
    ELSE [document |-> d, cleared |-> FALSE, threw |-> TRUE]
clearStep(d, ins, el) ==
  IF el # Null
    THEN [document |-> withoutDescendants(d, el, ins[el], "empty"),
          cleared |-> TRUE, threw |-> FALSE]
    ELSE [document |-> d, cleared |-> FALSE, threw |-> FALSE]

\* number of predicate calls made for the output
outputCalls(isClient) == IF isClient THEN 1 ELSE 0

\* const shouldRender = isClient ? shouldRenderOnClient() : true
shouldRenderOf_alwaysTrue(isClient, p2) == TRUE
shouldRenderOf_noClientCheck(isClient, p2) == p2
shouldRenderOf_negated(isClient, p2) == IF isClient THEN ~p2 ELSE TRUE
shouldRenderOf(isClient, p2) == IF isClient THEN p2 ELSE TRUE

\* <div id={id}>{shouldRender && children}</div>
element(shouldRender) == IF shouldRender THEN "children" ELSE "empty"

\* One call of the component function.  p1, p2 are what the predicate
\* returns on its first and second call (when those calls are made).
SkipRenderOnClient(e, cur, p1, p2, d, ins, k) ==
  LET isClient == isClientOf(e)
      hook == useIsFirstRender(cur)
      isFirstRender == hook.ret
      attempt == shouldClear(isClient, isFirstRender, p1)
      el == getElementById(d, k)
      step == IF attempt THEN clearStep(d, ins, el)
                         ELSE [document |-> d, cleared |-> FALSE, threw |-> FALSE]
      shouldRender == shouldRenderOf(isClient, p2)
  IN [ current |-> hook.current,
       isFirstRender |-> isFirstRender,
       attempt |-> attempt,
       cleared |-> step.cleared,
       threw |-> step.threw,
       document |-> step.document,
       gcalls |-> guardCalls(isClient, isFirstRender),
       ocalls |-> IF step.threw THEN 0 ELSE outputCalls(isClient),
       out |-> IF step.threw THEN "none" ELSE element(shouldRender) ]

\* what is remembered of an instance's latest render
NoRender == [isFirstRender |-> FALSE, attempt |-> FALSE, cleared |-> FALSE,
             threw |-> FALSE, gcalls |-> 0, ocalls |-> 0,
             p1 |-> FALSE, p2 |-> FALSE, pre |-> "absent", post |-> "absent",
             others |-> TRUE, prev |-> "none"]

----
Init ==
  /\ env = [i \in Slots |-> "none"]
  /\ id = [i \in Slots |-> Null]
  /\ parent = [i \in Slots |-> Null]
  /\ isFirst = [i \in Slots |-> TRUE]
  /\ renders = [i \in Slots |-> 0]
  /\ commits = [i \in Slots |-> 0]
  /\ pending = [i \in Slots |-> FALSE]
  /\ output = [i \in Slots |-> "none"]
  /\ last = [i \in Slots |-> NoRender]
  /\ predCalls = [i \in Slots |-> 0]
  /\ clears = [i \in Slots |-> 0]
  /\ clearCommits = [i \in Slots |-> -1]
  /\ dom = [k \in Ids |-> "absent"]
  /\ nextId = 1

\* the instances rendered among the children of instance i, at any depth
ChildrenOf(S) == {c \in Slots : parent[c] \in S}
RECURSIVE Closure(_, _)
Closure(S, n) == IF n = 0 THEN S ELSE Closure(S \cup ChildrenOf(S), n - 1)
Nested(i) == Closure({i}, Cardinality(Slots)) \ {i}

\* the instances that instance i is nested in
Ancestors(i) == {a \in Slots : i \in Nested(a)}

\* for each identity, the containers that lie inside its container
Inside ==
  [k \in Ids |-> {id[c] : c \in UNION {Nested(s) : s \in {t \in Slots : id[t] = k}}}]

\* f with the entry of slot i set to v and the entries of the slots in gone
\* set back to v0
Reset(f, i, v, gone, v0) ==
  [s \in Slots |-> IF s = i THEN v ELSE IF s \in gone THEN v0 ELSE f[s]]

\* slot i holds a fresh instance (React.useRef(true), nothing rendered yet)
\* and the instances in gone are discarded
Fresh(i, e, k, par, gone) ==
  /\ env' = Reset(env, i, e, gone, "none")
  /\ id' = Reset(id, i, k, gone, Null)
  /\ parent' = Reset(parent, i, par, gone, Null)
  /\ isFirst' = Reset(isFirst, i, TRUE, gone, TRUE)
  /\ renders' = Reset(renders, i, 0, gone, 0)
  /\ commits' = Reset(commits, i, 0, gone, 0)
  /\ pending' = Reset(pending, i, FALSE, gone, FALSE)
  /\ output' = Reset(output, i, "none", gone, "none")
  /\ last' = Reset(last, i, NoRender, gone, NoRender)
  /\ predCalls' = Reset(predCalls, i, 0, gone, 0)
  /\ clears' = Reset(clears, i, 0, gone, 0)
  /\ clearCommits' = Reset(clearCommits, i, -1, gone, -1)

\* instance i is being rendered by the framework: it is at the root, or the
\* latest render of its parent returned the children
Rendered(i) ==
  parent[i] # Null =>
    /\ \A a \in Ancestors(i) : env[a] = env[i]
    /\ renders[parent[i]] >= 1
    /\ output[parent[i]] = "children"

\* an instance is created in a server or a client context, at the root or
\* among the children a mounted instance has returned; useId() gives it an
\* identity no other instance has
Mount(i, e, par) ==
  /\ env[i] = "none"
  /\ nextId <= MaxIds
  /\ par # Null =>
       /\ par \in Slots /\ par # i
       /\ env[par] = e /\ renders[par] >= 1 /\ output[par] = "children"
       /\ \A a \in Ancestors(par) : env[a] = e
  /\ Fresh(i, e, nextId, par, {})
  /\ nextId' = nextId + 1
  /\ UNCHANGED dom

\* the component function runs once for instance i
Render(i, p1, p2) ==
  /\ env[i] # "none"
  /\ ~pending[i]
  /\ Rendered(i)
  /\ renders[i] < (IF env[i] = "server" THEN 1 ELSE MaxRenders)
  /\ LET r == SkipRenderOnClient(env[i], isFirst[i], p1, p2, dom, Inside, id[i])
     IN /\ isFirst' = [isFirst EXCEPT ![i] = r.current]
        /\ dom' = r.document
        /\ output' = [output EXCEPT ![i] = r.out]
        /\ pending' = [pending EXCEPT ![i] = ~r.threw]
        /\ renders' = [renders EXCEPT ![i] = @ + 1]
        /\ predCalls' = [predCalls EXCEPT ![i] = @ + r.gcalls + r.ocalls]
        /\ clears' = [clears EXCEPT ![i] = @ + (IF r.cleared THEN 1 ELSE 0)]
        /\ clearCommits' = [clearCommits EXCEPT ![i] =
                              IF r.cleared THEN commits[i] ELSE @]
        /\ last' = [last EXCEPT ![i] =
                      [isFirstRender |-> r.isFirstRender, attempt |-> r.attempt,
                       cleared |-> r.cleared, threw |-> r.threw,
                       gcalls |-> r.gcalls, ocalls |-> r.ocalls,
                       p1 |-> (r.gcalls = 1 /\ p1), p2 |-> (r.ocalls = 1 /\ p2),
                       pre |-> dom[id[i]], post |-> r.document[id[i]],
                       others |-> \A k \in Ids \ {id[i]} : r.document[k] = dom[k],
                       prev |-> output[i]]]
  /\ UNCHANGED <<env, id, parent, commits, nextId>>

\* the framework commits the returned element: the container then holds
\* what the render returned (on the server: the emitted markup).  When the
\* element has no children the instances nested in it are unmounted.
Commit(i) ==
  /\ pending[i]
  /\ parent[i] # Null =>
       /\ \A a \in Ancestors(i) : env[a] = env[i]
       /\ ~pending[parent[i]]
  /\ LET gone == IF output[i] = "empty" THEN Nested(i) ELSE {}
     IN /\ dom' = IF output[i] = "empty"
                    THEN withoutDescendants(dom, id[i], Inside[id[i]], "empty")
                    ELSE [dom EXCEPT ![id[i]] = output[i]]
        /\ env' = Reset(env, i, env[i], gone, "none")
        /\ id' = Reset(id, i, id[i], gone, Null)
        /\ parent' = Reset(parent, i, parent[i], gone, Null)
        /\ isFirst' = Reset(isFirst, i, isFirst[i], gone, TRUE)
        /\ renders' = Reset(renders, i, renders[i], gone, 0)
        /\ commits' = Reset(commits, i, commits[i] + 1, gone, 0)
        /\ pending' = Reset(pending, i, FALSE, gone, FALSE)
        /\ output' = Reset(output, i, output[i], gone, "none")
        /\ last' = Reset(last, i, last[i], gone, NoRender)
        /\ predCalls' = Reset(predCalls, i, predCalls[i], gone, 0)
        /\ clears' = Reset(clears, i, clears[i], gone, 0)
        /\ clearCommits' = Reset(clearCommits, i, clearCommits[i], gone, -1)
  /\ UNCHANGED nextId

\* the page is loaded in the browser: a new client instance with the same
\* useId() identity starts against the markup the server emitted.  The
\* server pass of the instances nested in it is over; a nested instance
\* starts once its parent has returned the children.
Hydrate(i) ==
  /\ env[i] = "server"
  /\ commits[i] >= 1
  /\ ~pending[i]
  /\ \A c \in Nested(i) : env[c] = "server" /\ commits[c] >= 1 /\ ~pending[c]
  /\ parent[i] # Null =>
       /\ env[parent[i]] = "client"
       /\ renders[parent[i]] >= 1
       /\ output[parent[i]] = "children"
  /\ Fresh(i, "client", id[i], parent[i], {})
  /\ UNCHANGED <<dom, nextId>>

\* other logic removes or empties the container before the first client render
OtherLogic(i, v) ==
  /\ env[i] = "client"
  /\ renders[i] = 0
  /\ dom[id[i]] = "children"
  /\ dom' = withoutDescendants(dom, id[i], Inside[id[i]], v)
  /\ UNCHANGED <<env, id, parent, isFirst, renders, commits, pending, output,
                 last, predCalls, clears, clearCommits, nextId>>

\* the instance is unmounted: its ref, identity and container are discarded,
\* and so are the instances nested in it
Unmount(i) ==
  /\ env[i] # "none"
  /\ ~pending[i]
  /\ Fresh(i, "none", Null, Null, Nested(i))
  /\ dom' = withoutDescendants(dom, id[i], Inside[id[i]], "absent")
  /\ UNCHANGED nextId

Next ==
  \/ \E i \in Slots, e \in {"server", "client"}, par \in Slots \cup {Null} :
       Mount(i, e, par)
  \/ \E i \in Slots, p1 \in BOOLEAN, p2 \in BOOLEAN : Render(i, p1, p2)
  \/ \E i \in Slots : Commit(i)
  \/ \E i \in Slots : Hydrate(i)
  \/ \E i \in Slots, v \in {"absent", "empty"} : OtherLogic(i, v)
  \/ \E i \in Slots : Unmount(i)

Spec == Init /\ [][Next]_vars

TypeOK ==
  /\ env \in [Slots -> {"none", "server", "client"}]
  /\ id \in [Slots -> Ids \cup {Null}]
  /\ parent \in [Slots -> Slots \cup {Null}]
  /\ \A i \in Slots : parent[i] # Null => (env[i] # "none" /\ env[parent[i]] # "none")
  \* a container in the document lies in a container that holds its children
  /\ \A i \in Slots :
       (parent[i] # Null /\ dom[id[i]] # "absent") => dom[id[parent[i]]] = "children"
  /\ isFirst \in [Slots -> BOOLEAN]
  /\ renders \in [Slots -> 0..MaxRenders]
  /\ commits \in [Slots -> 0..MaxRenders]
  /\ pending \in [Slots -> BOOLEAN]
  /\ output \in [Slots -> {"none", "empty", "children"}]
  /\ dom \in [Ids -> Content]
  /\ nextId \in 1..(MaxIds + 1)

----
\* ---------------- properties ----------------

Client(i) == env[i] = "client"
Mounted(i) == env[i] # "none"

\* what a server-context render returns for the same props
ServerOutput == element(shouldRenderOf(isClientOf("server"), FALSE))

\* C1 (as stated): the first client render of an instance returns the same
\* output as the server render, the container with children present,
\* whatever the predicate returns.
C1_FirstClientRenderEqualsServer ==
  \A i \in Slots :
    (Client(i) /\ renders[i] = 1) => output[i] = ServerOutput

\* C1 (amended): the first client render returns the server output exactly
\* when the predicate call made for the output returns true; when it returns
\* false the output is the container without children, which is what the
\* container holds once the first-render clear has emptied it.
C1_FirstClientRenderFollowsPredicate ==
  \A i \in Slots :
    (Client(i) /\ renders[i] = 1) =>
      /\ output[i] \in {"children", "empty"}
      /\ (output[i] = ServerOutput) <=> last[i].p2
      /\ (last[i].cleared /\ ~last[i].p2 /\ pending[i]) => dom[id[i]] = output[i]

C1_Witness ==
  \E i \in Slots :
    /\ Client(i) /\ renders[i] = 1 /\ pending[i]
    /\ last[i].pre = "children" /\ last[i].cleared
    /\ output[i] = "empty" /\ dom[id[i]] = "empty"

\* C2 (as stated): the imperative clear runs only after the first client
\* render of the instance has been committed.
C2_ClearAfterFirstCommit ==
  \A i \in Slots : clears[i] > 0 => clearCommits[i] >= 1

\* C2 (amended): the imperative clear runs inside the first client render,
\* before any output of the instance has been committed; no clear happens
\* after a commit of the instance.
C2_ClearBeforeFirstCommit ==
  \A i \in Slots :
    /\ clears[i] > 0 => clearCommits[i] = 0
    /\ (last[i].cleared /\ renders[i] = 1 /\ pending[i]) => commits[i] = 0

C2_Witness ==
  \E i \in Slots :
    Client(i) /\ clears[i] = 1 /\ clearCommits[i] = 0 /\ commits[i] >= 2

\* C3: a server-context render returns the container with children present
\* whatever the predicate would return, never calls the predicate and never
\* touches the document.
C3_ServerRenderKeepsChildren ==
  \A i \in Slots :
    env[i] = "server" =>
      /\ predCalls[i] = 0
      /\ clears[i] = 0
      /\ renders[i] >= 1 =>
           /\ output[i] = "children"
           /\ last[i].gcalls = 0 /\ last[i].ocalls = 0
           /\ ~last[i].attempt /\ ~last[i].cleared
           /\ last[i].post = last[i].pre /\ last[i].others

C3_Witness ==
  \E i \in Slots :
    /\ env[i] = "server" /\ renders[i] = 1 /\ commits[i] = 1
    /\ output[i] = "children" /\ dom[id[i]] = "children" /\ predCalls[i] = 0

\* C4: an instance clears its container at most once, and only in a render
\* that is on the client, is the instance's first render and in which the
\* predicate returned false.
C4_ClearAtMostOnceOnFirstClientRender ==
  \A i \in Slots :
    /\ clears[i] <= 1
    /\ clears[i] = 1 => Client(i)
    /\ last[i].cleared =>
         /\ Client(i) /\ renders[i] = 1 /\ last[i].isFirstRender
         /\ last[i].gcalls = 1 /\ ~last[i].p1
    /\ (~Client(i) \/ renders[i] >= 2) => (~last[i].attempt /\ ~last[i].cleared)

C4_Witness ==
  \E i \in Slots :
    /\ Client(i) /\ clears[i] = 1 /\ renders[i] = 2
    /\ ~last[i].p2 /\ last[i].pre = "empty" /\ ~last[i].cleared

\* C5: on every client render after the first the output has children
\* exactly when the predicate returns true in that render, and the render
\* does not touch the document; the content follows the predicate in both
\* directions.
C5_LaterRendersFollowPredicate ==
  \A i \in Slots :
    (Client(i) /\ renders[i] >= 2) =>
      /\ (output[i] = "children") <=> last[i].p2
      /\ output[i] \in {"children", "empty"}
      /\ last[i].ocalls = 1
      /\ ~last[i].attempt /\ ~last[i].cleared
      /\ last[i].post = last[i].pre /\ last[i].others
      /\ ~pending[i] => dom[id[i]] = output[i]

C5_Witness ==
  /\ \E i \in Slots :
       /\ Client(i) /\ renders[i] = 2 /\ clears[i] = 1 /\ ~pending[i]
       /\ last[i].prev = "empty" /\ output[i] = "children"
       /\ dom[id[i]] = "children"
  /\ \E j \in Slots :
       /\ Client(j) /\ renders[j] = 2 /\ clears[j] = 0 /\ ~pending[j]
       /\ last[j].prev = "children" /\ output[j] = "empty"
       /\ last[j].pre = "children" /\ last[j].post = "children"
       /\ dom[id[j]] = "empty"

\* C6: after the first client render of an instance, with a predicate that
\* returns false the container is empty (it was emptied if it existed, and
\* is empty once the render is committed); with a predicate that returns
\* true the render leaves the content as it was and it is present once the
\* render is committed.
C6_ContentAfterFirstClientRender ==
  \A i \in Slots :
    (Client(i) /\ renders[i] = 1 /\ last[i].p1 = last[i].p2) =>
      /\ pending[i] => dom[id[i]] = last[i].post
      /\ IF ~last[i].p2
           THEN /\ last[i].post # "children"
                /\ last[i].pre # "absent" => last[i].post = "empty"
                /\ commits[i] = 1 => dom[id[i]] = "empty"
           ELSE /\ last[i].post = last[i].pre
                /\ commits[i] = 1 => dom[id[i]] = "children"

C6_Witness ==
  /\ \E i \in Slots :
       /\ Client(i) /\ renders[i] = 1 /\ ~last[i].p1 /\ ~last[i].p2
       /\ last[i].pre = "children" /\ last[i].post = "empty"
       /\ commits[i] = 1 /\ dom[id[i]] = "empty"
  /\ \E j \in Slots :
       /\ Client(j) /\ renders[j] = 1 /\ last[j].p1 /\ last[j].p2
       /\ last[j].pre = "children" /\ last[j].post = "children"
       /\ commits[j] = 1 /\ dom[id[j]] = "children"

\* C7: when the container cannot be found at clear-time the clear is a
\* no-op: nothing is thrown, no content of the document changes and the
\* render returns its normal output; clearing an empty container leaves it
\* empty.
C7_MissingContainerIsNoOp ==
  \A i \in Slots :
    /\ ~last[i].threw
    /\ (last[i].attempt /\ last[i].pre = "absent") =>
         /\ ~last[i].cleared
         /\ last[i].post = "absent" /\ last[i].others
         /\ output[i] = element(last[i].p2)
         /\ last[i].ocalls = 1
         /\ pending[i] \/ commits[i] >= 1
    /\ (last[i].attempt /\ last[i].pre = "empty") =>
         /\ last[i].post = "empty" /\ last[i].others
         /\ output[i] = element(last[i].p2)

C7_Witness ==
  /\ \E i \in Slots :
       /\ Client(i) /\ last[i].attempt /\ last[i].pre = "absent"
       /\ pending[i] /\ output[i] = "empty" /\ dom[id[i]] = "absent"
  /\ \E j \in Slots :
       /\ Client(j) /\ last[j].attempt /\ last[j].pre = "empty"
       /\ dom[id[j]] = "empty"

\* the state of instance j moves (it is created, rendered, committed,
\* hydrated or unmounted)
Moves(j) == <<env[j], renders[j], commits[j]>>' # <<env[j], renders[j], commits[j]>>

\* instance j takes a step of its own: it is not discarded by a step of an
\* instance it is nested in
Acts(j) == Moves(j) /\ \A a \in Slots : j \in Nested(a) => ~Moves(a)

\* the component function of instance j runs
Renders(j) == renders'[j] = renders[j] + 1

\* mounted instances have distinct identities; an instance that is mounted
\* (also after an unmount) gets an identity never used before, an absent
\* container and its flag at "first"
OwnIdentityAndFlag ==
  /\ \A i, j \in Slots :
       (i # j /\ Mounted(i)' /\ Mounted(j)') => id'[i] # id'[j]
  /\ \A i \in Slots :
       (~Mounted(i) /\ Mounted(i)') =>
         /\ isFirst'[i] /\ renders'[i] = 0 /\ clears'[i] = 0
         /\ id'[i] >= nextId
         /\ dom'[id'[i]] = "absent"

\* C8 (as stated): instances are isolated.  A render of one instance, with
\* the clear it may perform, changes neither the flag nor the container
\* content of any other instance; identities are distinct and a remounted
\* instance starts afresh.
C8_InstancesIsolated ==
  [][ /\ \A i, j \in Slots :
           (i # j /\ Renders(j)) =>
             /\ isFirst'[i] = isFirst[i]
             /\ Mounted(i) => dom'[id[i]] = dom[id[i]]
      /\ OwnIdentityAndFlag
    ]_vars

\* C8 (amended): a step of one instance changes neither the flag, the
\* identity, the output nor the container content of an instance that is
\* not nested in it.  Of an instance nested in it a render changes nothing
\* but the container, which the clear removes from the document together
\* with the other children.  Identities are distinct and a
\* remounted instance starts afresh.
C8_IsolatedUnlessNested ==
  [][ /\ \A i, j \in Slots :
           (i # j /\ Acts(j) /\ i \notin Nested(j)) =>
             /\ isFirst'[i] = isFirst[i]
             /\ id'[i] = id[i]
             /\ output'[i] = output[i]
             /\ last'[i] = last[i]
             /\ clears'[i] = clears[i]
             /\ Mounted(i) => dom'[id[i]] = dom[id[i]]
      /\ \A i, j \in Slots :
           (i \in Nested(j) /\ Renders(j)) =>
             /\ isFirst'[i] = isFirst[i]
             /\ id'[i] = id[i]
             /\ output'[i] = output[i]
             /\ last'[i] = last[i]
             /\ clears'[i] = clears[i]
             /\ dom'[id[i]] \in {dom[id[i]], "absent"}
             /\ dom'[id[i]] # dom[id[i]] => (last'[j].cleared /\ Client(j))
      /\ OwnIdentityAndFlag
    ]_vars

C8_Witness ==
  \E i, j \in Slots :
    /\ parent[j] = i /\ Client(i) /\ Mounted(j)
    /\ renders[i] = 1 /\ last[i].cleared /\ ~last[i].others
    /\ dom[id[i]] = "empty" /\ dom[id[j]] = "absent"
    /\ isFirst[j] /\ id[i] # id[j]

\* C9: the flag of an instance is "first" until its first render, "not
\* first" from then on whatever that render did, and useIsFirstRender
\* returns true in exactly the first render.
C9_FlagFlipsOnceOnFirstRender ==
  \A i \in Slots :
    /\ isFirst[i] <=> renders[i] = 0
    /\ renders[i] >= 1 => (last[i].isFirstRender <=> renders[i] = 1)

C9_Witness ==
  /\ \E i \in Slots :
       /\ Client(i) /\ renders[i] = 2 /\ ~isFirst[i] /\ ~last[i].isFirstRender
       /\ clears[i] = 0
  /\ \E j \in Slots :
       /\ Client(j) /\ renders[j] = 1 /\ ~isFirst[j] /\ last[j].isFirstRender
       /\ last[j].attempt /\ last[j].pre = "absent"

\* C10: in every client render the output has children exactly when the
\* predicate call made for the output returns true; the predicate is called
\* twice in the first client render and once in each later one; the clear
\* happens only if the first call returns false, and with both calls
\* returning the same value a render that clears returns the empty container.
C10_OutputEqualsSecondCall ==
  \A i \in Slots :
    (Client(i) /\ renders[i] >= 1) =>
      /\ (output[i] = "children") <=> last[i].p2
      /\ last[i].ocalls = 1
      /\ last[i].gcalls = (IF renders[i] = 1 THEN 1 ELSE 0)
      /\ predCalls[i] = renders[i] + 1
      /\ last[i].attempt <=> (renders[i] = 1 /\ ~last[i].p1)
      /\ last[i].cleared => last[i].attempt
      /\ (last[i].cleared /\ last[i].p1 = last[i].p2) => output[i] = "empty"

C10_Witness ==
  /\ \E i \in Slots :
       /\ Client(i) /\ renders[i] = 1 /\ predCalls[i] = 2
       /\ last[i].cleared /\ ~last[i].p1 /\ last[i].p2
       /\ output[i] = "children" /\ dom[id[i]] = "empty"
  /\ \E j \in Slots :
       /\ Client(j) /\ renders[j] = 2 /\ predCalls[j] = 3
====
